---- MODULE Spec2Model ----
(***************************************************************************)
(* Model of the learn-wgpu render harness (src/src/lib.rs): the winit      *)
(* event callback of run(), State::resize, State::input, State::update,    *)
(* State::render and on_redraw_requested / on_keyboard_input.              *)
(*                                                                         *)
(* f64 values (pointer positions, colour channels) are exact rationals     *)
(* <<numerator, denominator>> in lowest terms; u32 sizes are naturals.     *)
(* The redraw handler is split at its statements (pc) so that the order of *)
(* request_redraw / update / acquire / record / submit / present is        *)
(* visible; the event loop delivers the next event only at pc = "loop".    *)
(***************************************************************************)
EXTENDS Integers, Naturals, Sequences, FiniteSets, TLC

VARIABLES
    pc,                             \* position in run() / on_redraw_requested
    size,                           \* State.size
    surface_configuration,          \* State.surface_configuration (width, height)
    surface,                        \* configuration last handed to surface.configure
    clear_color,                    \* State.clear_color
    active_render_pipeline_index,   \* State.active_render_pipeline_index
    exiting,                        \* control_flow.exit() has been called
    redraw_pending,                 \* window.request_redraw() outstanding
    event,                          \* the event being (or last) handled
    consumed,                       \* what state.input(&event) returned
    generic,                        \* the match of run() after input() was reached
    acquired,                       \* outcome of surface.get_current_texture()
    frame,                          \* what the render pass of this redraw recorded
    ops,                            \* calls made so far by the current handler
    cycle_trail,                    \* indices seen by the latest cycle presses
    pre,                            \* State and loop flags when the event arrived
    resources,                      \* State's pipelines, buffers, n_indices, bind group
    surface_caps,                   \* surface_caps.formats
    surface_format,                 \* surface_configuration.format
    inputs                          \* the last pointer move and the cycle presses so far

vars == <<pc, size, surface_configuration, surface, clear_color,
          active_render_pipeline_index, exiting, redraw_pending, event,
          consumed, generic, acquired, frame, ops, cycle_trail, pre,
          resources, surface_caps, surface_format, inputs>>

\* what State::new fixes for the lifetime of the process
static == <<resources, surface_caps, surface_format>>

----------------------------------------------------------------------------
(* Bounds of the explored inputs *)

\* window and resize dimensions range over 0..MaxDim
MaxDim == 2

\* pointer coordinates range over k/2 pixels, k in 0..MaxPosHalf
MaxPosHalf == 1

\* pointer coordinates of SpecPointer range over k/2 pixels, k in 0..MaxFinePosHalf
MaxFinePosHalf == 3

\* lists of supported surface formats have 1..MaxFormats entries
MaxFormats == 3

----------------------------------------------------------------------------
(* f64 arithmetic, exact *)

RECURSIVE GCD(_, _)
GCD(a, b) == IF b = 0 THEN a ELSE GCD(b, a % b)

\* the rational n/d (n >= 0, d > 0) in lowest terms
Rat(n, d) == LET g == GCD(n, d) IN <<n \div g, d \div g>>

\* `width as f64`
U32AsF64(n) == Rat(n, 1)

\* p / q for q # 0
RatDiv(p, q) == Rat(p[1] * q[2], p[2] * q[1])

RatAdd(p, q) == Rat(p[1] * q[2] + q[1] * p[2], p[2] * q[2])

----------------------------------------------------------------------------
(* Program constants *)

\* const INDICES
INDICES == <<0, 1, 4, 1, 2, 4, 2, 3, 4, 0>>

\* n_indices without the padding index at the end of INDICES
n_indices_unpadded == Len(INDICES) - 1

\* n_indices: INDICES.len() as u32
n_indices == Len(INDICES)

\* render_pipelines: vec![render_pipeline, render_pipeline2]
render_pipelines == <<"shader.wgsl", "shader2.wgsl">>

\* clear_color set by State::new
InitialClearColor ==
    [r |-> Rat(3, 100), g |-> Rat(3, 100), b |-> Rat(3, 100), a |-> Rat(1, 1)]

\* texture formats a surface may report, and TextureFormat::is_srgb
LinearFormats == {"Bgra8Unorm", "Rgba8Unorm"}
SrgbFormats == {"Bgra8UnormSrgb", "Rgba8UnormSrgb"}
TextureFormats == LinearFormats \cup SrgbFormats
is_srgb(f) == f \in SrgbFormats

\* every list of 1..MaxFormats formats
FormatLists == UNION {[1..n -> TextureFormats] : n \in 1..MaxFormats}

\* the list a desktop surface reports
DesktopFormatLists == {<<"Bgra8Unorm", "Bgra8UnormSrgb">>}

\* the pipelines, buffers, index count and bind group State::new creates
CreatedResources ==
    [render_pipelines |-> render_pipelines,
     vertex_buffer |-> "Pentagon Vertex Buffer",
     index_buffer |-> "Index Buffer",
     n_indices |-> n_indices,
     diffuse_bind_group |-> "diffuse_bind_group",
     rebuilt |-> FALSE]

\* wgpu::SurfaceError plus the Ok case of get_current_texture()
SurfaceErrors == {"Lost", "Outdated", "OutOfMemory", "Other", "Timeout"}
AcquireResults == {"Ok"} \cup SurfaceErrors

----------------------------------------------------------------------------
(* Events delivered by the winit event loop *)

Dims == 0..MaxDim
Coords == {Rat(k, 2) : k \in 0..MaxPosHalf}
FineCoords == {Rat(k, 2) : k \in 0..MaxFinePosHalf}
NoPosition == [x |-> Rat(0, 1), y |-> Rat(0, 1)]

\* physical keys: three KeyCodes and PhysicalKey::Unidentified
KeyCodes == {"Space", "Escape", "KeyA", "Unidentified"}
ElementStates == {"Pressed", "Released"}

MkEvent(kind, w, h, pos, code, st) ==
    [kind |-> kind, width |-> w, height |-> h, position |-> pos,
     code |-> code, state |-> st]

PlainEvent(kind) == MkEvent(kind, 0, 0, NoPosition, "none", "none")

CloseRequestedEvents == {PlainEvent("CloseRequested")}
RedrawRequestedEvents == {PlainEvent("RedrawRequested")}
\* window events run() has no arm for (Focused, Moved, ...)
OtherWindowEvents == {PlainEvent("Focused")}
KeyboardInputEvents ==
    {MkEvent("KeyboardInput", 0, 0, NoPosition, c, s) :
        c \in KeyCodes, s \in ElementStates}
ResizedEvents ==
    {MkEvent("Resized", w, h, NoPosition, "none", "none") :
        w \in Dims, h \in Dims}
CursorMovedEvents ==
    {MkEvent("CursorMoved", 0, 0, [x |-> px, y |-> py], "none", "none") :
        px \in Coords, py \in Coords}

FineCursorMovedEvents ==
    {MkEvent("CursorMoved", 0, 0, [x |-> px, y |-> py], "none", "none") :
        px \in FineCoords, py \in FineCoords}

NoEvent == PlainEvent("none")

----------------------------------------------------------------------------
(* State::input *)

\* CursorColor without the halving of the blue channel
CursorColorNoHalf(position, sz) ==
    LET x == RatDiv(position.x, U32AsF64(sz.width))
        y == RatDiv(position.y, U32AsF64(sz.height))
    IN [r |-> x, g |-> y, b |-> RatAdd(x, y), a |-> Rat(1, 1)]

\* the clear colour computed for a pointer position
CursorColor(position, sz) ==
    LET x == RatDiv(position.x, U32AsF64(sz.width))
        y == RatDiv(position.y, U32AsF64(sz.height))
    IN [r |-> x, g |-> y, b |-> RatDiv(RatAdd(x, y), Rat(2, 1)), a |-> Rat(1, 1)]

\* NextPipelineIndex with the modulus of a three-pipeline list
NextPipelineIndexOfThree(i) == (i + 1) % 3

\* NextPipelineIndex with the modulus of a one-pipeline list
NextPipelineIndexOfOne(i) == (i + 1) % 1

\* the KeyCode::Space arm
NextPipelineIndex(i) == (i + 1) % 2

IsPressedCode(e) ==
    /\ e.kind = "KeyboardInput"
    /\ e.state = "Pressed"
    /\ e.code # "Unidentified"

\* InputConsumed with every pressed key swallowed
InputConsumedAnyPress(e) ==
    \/ e.kind = "CursorMoved"
    \/ e.kind = "KeyboardInput" /\ e.state = "Pressed"

\* the boolean State::input returns
InputConsumed(e) ==
    \/ e.kind = "CursorMoved"
    \/ IsPressedCode(e) /\ e.code = "Space"

\* input with the pipelines created anew on every cycle press
inputRebuildsPipelines(e) ==
    [clear_color |->
        IF e.kind = "CursorMoved"
        THEN CursorColor(e.position, size) ELSE clear_color,
     index |->
        IF IsPressedCode(e) /\ e.code = "Space"
        THEN NextPipelineIndex(active_render_pipeline_index)
        ELSE active_render_pipeline_index,
     resources |->
        IF IsPressedCode(e) /\ e.code = "Space"
        THEN [resources EXCEPT !.rebuilt = TRUE] ELSE resources,
     consumed |-> InputConsumed(e)]

\* State::input: the fields of State after it and the value it returns
input(e) ==
    [clear_color |->
        IF e.kind = "CursorMoved"
        THEN CursorColor(e.position, size) ELSE clear_color,
     index |->
        IF IsPressedCode(e) /\ e.code = "Space"
        THEN NextPipelineIndex(active_render_pipeline_index)
        ELSE active_render_pipeline_index,
     resources |-> resources,
     consumed |-> InputConsumed(e)]

----------------------------------------------------------------------------
(* State::resize *)

\* ResizeAccepts with `||` for `&&`
ResizeAcceptsEither(new_size) == new_size.width > 0 \/ new_size.height > 0

\* the guard of State::resize
ResizeAccepts(new_size) == new_size.width > 0 /\ new_size.height > 0

\* Resize without `self.size = new_size`
ResizeKeepsSize(new_size, log) ==
    IF new_size.width > 0 /\ new_size.height > 0
    THEN /\ size' = size
         /\ surface_configuration' =
                [surface_configuration EXCEPT !.width = new_size.width,
                                              !.height = new_size.height]
         /\ surface' = surface_configuration'
         /\ ops' = Append(log, "configure")
    ELSE /\ UNCHANGED <<size, surface_configuration, surface>>
         /\ ops' = log

\* Resize with a window.request_redraw() after the configure call
ResizeRequestsRedraw(new_size, log) ==
    IF new_size.width > 0 /\ new_size.height > 0
    THEN /\ size' = new_size
         /\ surface_configuration' =
                [surface_configuration EXCEPT !.width = new_size.width,
                                              !.height = new_size.height]
         /\ surface' = surface_configuration'
         /\ ops' = log \o <<"configure", "request_redraw">>
    ELSE /\ UNCHANGED <<size, surface_configuration, surface>>
         /\ ops' = log

\* Resize without `self.surface_configuration.width = new_size.width`
ResizeKeepsConfiguredWidth(new_size, log) ==
    IF new_size.width > 0 /\ new_size.height > 0
    THEN /\ size' = new_size
         /\ surface_configuration' =
                [surface_configuration EXCEPT !.height = new_size.height]
         /\ surface' = surface_configuration'
         /\ ops' = Append(log, "configure")
    ELSE /\ UNCHANGED <<size, surface_configuration, surface>>
         /\ ops' = log

\* State::resize; log is the list of calls the handler made before it
Resize(new_size, log) ==
    IF ResizeAccepts(new_size)
    THEN /\ size' = new_size
         /\ surface_configuration' =
                [surface_configuration EXCEPT !.width = new_size.width,
                                              !.height = new_size.height]
         /\ surface' = surface_configuration'
         /\ ops' = Append(log, "configure")
    ELSE /\ UNCHANGED <<size, surface_configuration, surface>>
         /\ ops' = log

----------------------------------------------------------------------------
(* on_keyboard_input and the error arms of on_redraw_requested *)

\* KeyExits without the ElementState::Pressed pattern
KeyExitsAnyState(e) == e.kind = "KeyboardInput" /\ e.code = "Escape"

\* on_keyboard_input: does this key event call control_flow.exit()
KeyExits(e) == IsPressedCode(e) /\ e.code = "Escape"

\* Classify with Outdated moved to the Timeout arm
ClassifyOutdatedSkipped(result) ==
    CASE result = "Ok" -> "Done"
      [] result = "Lost" -> "Reconfigure"
      [] result \in {"OutOfMemory", "Other"} -> "Fatal"
      [] result \in {"Timeout", "Outdated"} -> "Skip"

\* Classify with Other moved to the Lost | Outdated arm
ClassifyOtherReconfigures(result) ==
    CASE result = "Ok" -> "Done"
      [] result \in {"Lost", "Outdated", "Other"} -> "Reconfigure"
      [] result = "OutOfMemory" -> "Fatal"
      [] result = "Timeout" -> "Skip"

\* Classify with Timeout moved to the Lost | Outdated arm
ClassifyTimeoutReconfigures(result) ==
    CASE result = "Ok" -> "Done"
      [] result \in {"Lost", "Outdated", "Timeout"} -> "Reconfigure"
      [] result \in {"OutOfMemory", "Other"} -> "Fatal"

\* Classify with Timeout moved to the OutOfMemory | Other arm
ClassifyTimeoutFatal(result) ==
    CASE result = "Ok" -> "Done"
      [] result \in {"Lost", "Outdated"} -> "Reconfigure"
      [] result \in {"OutOfMemory", "Other", "Timeout"} -> "Fatal"

\* Classify with Lost moved to the OutOfMemory | Other arm
ClassifyLostFatal(result) ==
    CASE result = "Ok" -> "Done"
      [] result = "Outdated" -> "Reconfigure"
      [] result \in {"OutOfMemory", "Other", "Lost"} -> "Fatal"
      [] result = "Timeout" -> "Skip"

\* the match on state.render()'s result
Classify(result) ==
    CASE result = "Ok" -> "Done"
      [] result \in {"Lost", "Outdated"} -> "Reconfigure"
      [] result \in {"OutOfMemory", "Other"} -> "Fatal"
      [] result = "Timeout" -> "Skip"

----------------------------------------------------------------------------
(* Initial state: State::new has returned (or panicked in surface.configure) *)

NoFrame ==
    [recorded |-> FALSE, clear |-> InitialClearColor, index |-> 0,
     pipeline |-> "none", first |-> 0, count |-> 0, passes |-> 0, draws |-> 0]

Snapshot ==
    [size |-> size, surface_configuration |-> surface_configuration,
     surface |-> surface, clear_color |-> clear_color,
     index |-> active_render_pipeline_index, exiting |-> exiting,
     redraw_pending |-> redraw_pending, surface_format |-> surface_format]

\* SelectFormat with the last sRGB format for the first
SelectFormatLastSrgb(formats) ==
    LET srgb == {i \in 1..Len(formats) : is_srgb(formats[i])}
    IN IF srgb = {} THEN formats[1]
       ELSE formats[CHOOSE i \in srgb : \A j \in srgb : j <= i]

\* State::new: formats.iter().find(|f| f.is_srgb()).copied().unwrap_or(formats[0])
SelectFormat(formats) ==
    LET srgb == {i \in 1..Len(formats) : is_srgb(formats[i])}
    IN IF srgb = {} THEN formats[1]
       ELSE formats[CHOOSE i \in srgb : \A j \in srgb : i <= j]

NoInputs == [moved |-> FALSE, x |-> Rat(0, 1), y |-> Rat(0, 1), presses |-> 0]

\* State::new: the configuration built from window.inner_size() is applied
\* unconditionally; wgpu panics in Surface::configure on a zero dimension.
\* format_lists is what surface.get_capabilities may report
InitWith(format_lists) ==
    \E w \in Dims, h \in Dims, formats \in format_lists :
        /\ surface_caps = formats
        /\ surface_format = SelectFormat(formats)
        /\ resources = CreatedResources
        /\ inputs = NoInputs
        /\ size = [width |-> w, height |-> h]
        /\ surface_configuration = [width |-> w, height |-> h]
        /\ surface = [width |-> w, height |-> h]
        /\ pc = IF w > 0 /\ h > 0 THEN "constructed" ELSE "panicked"
        /\ clear_color = InitialClearColor
        /\ active_render_pipeline_index = 0
        /\ exiting = FALSE
        /\ redraw_pending = FALSE
        /\ event = NoEvent
        /\ consumed = FALSE
        /\ generic = FALSE
        /\ acquired = "None"
        /\ frame = NoFrame
        /\ ops = <<"configure">>
        /\ cycle_trail = <<0>>
        /\ pre = [size |-> [width |-> w, height |-> h],
                  surface_configuration |-> [width |-> w, height |-> h],
                  surface |-> [width |-> w, height |-> h],
                  clear_color |-> InitialClearColor,
                  index |-> 0, exiting |-> FALSE, redraw_pending |-> FALSE,
                  surface_format |-> SelectFormat(formats)]

Init == InitWith(DesktopFormatLists)

----------------------------------------------------------------------------
(* run() *)

\* state.resize(state.size) before the event loop starts
StartupResize ==
    /\ pc = "constructed"
    /\ pre' = Snapshot
    /\ Resize(size, <<>>)
    /\ pc' = "loop"
    /\ UNCHANGED <<clear_color, active_render_pipeline_index, exiting,
                   redraw_pending, event, consumed, generic, acquired, frame,
                   cycle_trail, static, inputs>>

\* the latest Len(render_pipelines) + 1 indices produced by cycle presses
Trail(e, i) ==
    IF IsPressedCode(e) /\ e.code = "Space"
    THEN LET t == Append(cycle_trail, i)
         IN IF Len(t) > Len(render_pipelines) + 1 THEN Tail(t) ELSE t
    ELSE cycle_trail

\* the last pointer move as a fraction of the size it met, and the cycle
\* presses so far modulo the number of pipelines
InputsAfter(e) ==
    IF e.kind = "CursorMoved"
    THEN [inputs EXCEPT
            !.moved = TRUE,
            !.x = Rat(e.position.x[1], e.position.x[2] * size.width),
            !.y = Rat(e.position.y[1], e.position.y[2] * size.height)]
    ELSE IF IsPressedCode(e) /\ e.code = "Space"
    THEN [inputs EXCEPT !.presses = (@ + 1) % Len(render_pipelines)]
    ELSE inputs

\* the closure body for a WindowEvent of this window; the loop hands over
\* the next event only after the previous call returned, and none once
\* control_flow.exit() was called
HandleWindowEvent(e) ==
    LET res == input(e) IN
    /\ pc = "loop"
    /\ ~exiting
    /\ event' = e
    /\ pre' = Snapshot
    /\ acquired' = "None"
    /\ frame' = NoFrame
    /\ consumed' = res.consumed
    /\ clear_color' = res.clear_color
    /\ active_render_pipeline_index' = res.index
    /\ cycle_trail' = Trail(e, res.index)
    /\ resources' = res.resources
    /\ inputs' = InputsAfter(e)
    /\ UNCHANGED <<surface_caps, surface_format>>
    /\ IF res.consumed
       THEN /\ generic' = FALSE
            /\ ops' = <<>>
            /\ pc' = "loop"
            /\ UNCHANGED <<size, surface_configuration, surface, exiting,
                           redraw_pending>>
       ELSE /\ generic' = TRUE
            /\ CASE e.kind = "CloseRequested" ->
                    /\ exiting' = TRUE
                    /\ ops' = <<"exit">>
                    /\ pc' = "loop"
                    /\ UNCHANGED <<size, surface_configuration, surface,
                                   redraw_pending>>
                 [] e.kind = "KeyboardInput" ->
                    /\ exiting' = KeyExits(e)
                    /\ ops' = IF KeyExits(e) THEN <<"exit">> ELSE <<>>
                    /\ pc' = "loop"
                    /\ UNCHANGED <<size, surface_configuration, surface,
                                   redraw_pending>>
                 [] e.kind = "Resized" ->
                    /\ Resize([width |-> e.width, height |-> e.height], <<>>)
                    /\ pc' = "loop"
                    /\ UNCHANGED <<exiting, redraw_pending>>
                 [] e.kind = "RedrawRequested" ->
                    /\ redraw_pending' = TRUE
                    /\ ops' = <<"request_redraw">>
                    /\ pc' = "requested"
                    /\ UNCHANGED <<size, surface_configuration, surface,
                                   exiting>>
                 [] OTHER ->
                    /\ ops' = <<>>
                    /\ pc' = "loop"
                    /\ UNCHANGED <<size, surface_configuration, surface,
                                   exiting, redraw_pending>>

CloseRequested == \E e \in CloseRequestedEvents : HandleWindowEvent(e)
KeyboardInput == \E e \in KeyboardInputEvents : HandleWindowEvent(e)
Resized == \E e \in ResizedEvents : HandleWindowEvent(e)
CursorMoved == \E e \in CursorMovedEvents : HandleWindowEvent(e)
OtherWindowEvent == \E e \in OtherWindowEvents : HandleWindowEvent(e)
\* the event loop delivers RedrawRequested on its own or after request_redraw()
RedrawRequested == \E e \in RedrawRequestedEvents : HandleWindowEvent(e)

\* an event run() ignores: another window's id, or not a WindowEvent
IgnoredEvent ==
    /\ pc = "loop"
    /\ ~exiting
    /\ event' = PlainEvent("Ignored")
    /\ pre' = Snapshot
    /\ consumed' = FALSE
    /\ generic' = FALSE
    /\ acquired' = "None"
    /\ frame' = NoFrame
    /\ ops' = <<>>
    /\ UNCHANGED <<pc, size, surface_configuration, surface, clear_color,
                   active_render_pipeline_index, exiting, redraw_pending,
                   cycle_trail, static, inputs>>

----------------------------------------------------------------------------
(* on_redraw_requested, after window().request_redraw() *)

\* Update with an animation step that resets the clear colour
UpdateAnimates ==
    /\ pc = "requested"
    /\ pc' = "updated"
    /\ ops' = Append(ops, "update")
    /\ clear_color' = InitialClearColor
    /\ UNCHANGED <<size, surface_configuration, surface,
                   active_render_pipeline_index, exiting, redraw_pending,
                   event, consumed, generic, acquired, frame, cycle_trail, pre,
                   static, inputs>>

\* state.update()
Update ==
    /\ pc = "requested"
    /\ pc' = "updated"
    /\ ops' = Append(ops, "update")
    /\ UNCHANGED <<size, surface_configuration, surface, clear_color,
                   active_render_pipeline_index, exiting, redraw_pending,
                   event, consumed, generic, acquired, frame, cycle_trail, pre,
                   static, inputs>>

\* State::render: self.surface.get_current_texture()?
Acquire ==
    /\ pc = "updated"
    /\ \E result \in AcquireResults :
        /\ acquired' = result
        /\ pc' = IF result = "Ok" THEN "acquired" ELSE "failed"
    /\ ops' = Append(ops, "get_current_texture")
    /\ UNCHANGED <<size, surface_configuration, surface, clear_color,
                   active_render_pipeline_index, exiting, redraw_pending,
                   event, consumed, generic, frame, cycle_trail, pre, static,
                   inputs>>

\* Record with a constant clear colour in the render pass
RecordFixedClear ==
    /\ pc = "acquired"
    /\ pc' = "recorded"
    /\ frame' = [recorded |-> TRUE,
                 clear |-> InitialClearColor,
                 index |-> active_render_pipeline_index,
                 pipeline |->
                    resources.render_pipelines[active_render_pipeline_index + 1],
                 first |-> 0,
                 count |-> resources.n_indices,
                 passes |-> frame.passes + 1,
                 draws |-> frame.draws + 1]
    /\ ops' = ops \o <<"begin_render_pass", "set_pipeline", "set_bind_group",
                       "set_vertex_buffer", "set_index_buffer", "draw_indexed",
                       "finish">>
    /\ UNCHANGED <<size, surface_configuration, surface, clear_color,
                   active_render_pipeline_index, exiting, redraw_pending,
                   event, consumed, generic, acquired, cycle_trail, pre, static,
                   inputs>>

\* State::render: the encoder, the render pass and its draw
Record ==
    /\ pc = "acquired"
    /\ pc' = "recorded"
    /\ frame' = [recorded |-> TRUE,
                 clear |-> clear_color,
                 index |-> active_render_pipeline_index,
                 pipeline |->
                    resources.render_pipelines[active_render_pipeline_index + 1],
                 first |-> 0,
                 count |-> resources.n_indices,
                 passes |-> frame.passes + 1,
                 draws |-> frame.draws + 1]
    /\ ops' = ops \o <<"begin_render_pass", "set_pipeline", "set_bind_group",
                       "set_vertex_buffer", "set_index_buffer", "draw_indexed",
                       "finish">>
    /\ UNCHANGED <<size, surface_configuration, surface, clear_color,
                   active_render_pipeline_index, exiting, redraw_pending,
                   event, consumed, generic, acquired, cycle_trail, pre, static,
                   inputs>>

\* State::render: self.queue.submit(...)
Submit ==
    /\ pc = "recorded"
    /\ pc' = "submitted"
    /\ ops' = Append(ops, "submit")
    /\ UNCHANGED <<size, surface_configuration, surface, clear_color,
                   active_render_pipeline_index, exiting, redraw_pending,
                   event, consumed, generic, acquired, frame, cycle_trail, pre,
                   static, inputs>>

\* Present without the output.present() call
PresentForgotten ==
    /\ pc = "submitted"
    /\ pc' = "presented"
    /\ UNCHANGED <<size, surface_configuration, surface, clear_color,
                   active_render_pipeline_index, exiting, redraw_pending,
                   event, consumed, generic, acquired, frame, ops, cycle_trail,
                   pre, static, inputs>>

\* State::render: output.present(); Ok(())
Present ==
    /\ pc = "submitted"
    /\ pc' = "presented"
    /\ ops' = Append(ops, "present")
    /\ UNCHANGED <<size, surface_configuration, surface, clear_color,
                   active_render_pipeline_index, exiting, redraw_pending,
                   event, consumed, generic, acquired, frame, cycle_trail, pre,
                   static, inputs>>

\* the match arms on the result of state.render()
HandleRenderResult ==
    /\ pc \in {"presented", "failed"}
    /\ pc' = "loop"
    /\ CASE Classify(acquired) = "Reconfigure" ->
            /\ Resize(size, ops)
            /\ UNCHANGED exiting
         [] Classify(acquired) = "Fatal" ->
            /\ exiting' = TRUE
            /\ ops' = ops \o <<"log_error", "exit">>
            /\ UNCHANGED <<size, surface_configuration, surface>>
         [] Classify(acquired) = "Skip" ->
            /\ ops' = Append(ops, "log_warn")
            /\ UNCHANGED <<size, surface_configuration, surface, exiting>>
         [] OTHER ->
            UNCHANGED <<size, surface_configuration, surface, exiting, ops>>
    /\ UNCHANGED <<clear_color, active_render_pipeline_index, redraw_pending,
                   event, consumed, generic, acquired, frame, cycle_trail, pre,
                   static, inputs>>

\* event_loop.run returns once exit was requested
LoopExit ==
    /\ pc = "loop"
    /\ exiting
    /\ pc' = "exited"
    /\ UNCHANGED <<size, surface_configuration, surface, clear_color,
                   active_render_pipeline_index, exiting, redraw_pending,
                   event, consumed, generic, acquired, frame, ops,
                   cycle_trail, pre, static, inputs>>

Next ==
    \/ StartupResize
    \/ CloseRequested
    \/ KeyboardInput
    \/ Resized
    \/ CursorMoved
    \/ OtherWindowEvent
    \/ RedrawRequested
    \/ IgnoredEvent
    \/ Update
    \/ Acquire
    \/ Record
    \/ Submit
    \/ Present
    \/ HandleRenderResult
    \/ LoopExit

Spec == Init /\ [][Next]_vars

\* CursorMoved over the finer grid of pointer positions
FineCursorMoved == \E e \in FineCursorMovedEvents : HandleWindowEvent(e)

\* resizes and pointer moves only, the pointer on the finer grid
NextPointer ==
    \/ StartupResize
    \/ Resized
    \/ FineCursorMoved

SpecPointer == Init /\ [][NextPointer]_vars

\* State::new for every list of formats the surface may report
InitFormats == InitWith(FormatLists)

\* construction and resizes only
NextFormats ==
    \/ StartupResize
    \/ Resized

SpecFormats == InitFormats /\ [][NextFormats]_vars

\* the event loop delivers a RedrawRequested that window.request_redraw()
\* asked for
RequestedRedraw == redraw_pending /\ RedrawRequested

\* every event but the pointer move, which plays no part in scheduling
NextLive ==
    \/ StartupResize
    \/ CloseRequested
    \/ KeyboardInput
    \/ Resized
    \/ OtherWindowEvent
    \/ RedrawRequested
    \/ IgnoredEvent
    \/ Update
    \/ Acquire
    \/ Record
    \/ Submit
    \/ Present
    \/ HandleRenderResult
    \/ LoopExit

\* the scheduling of the program: a handler that was entered runs to its
\* end, a requested redraw is delivered unless the loop exits
SpecLive ==
    /\ Init /\ [][NextLive]_vars
    /\ WF_vars(RequestedRedraw)
    /\ WF_vars(Update)
    /\ WF_vars(Acquire)
    /\ WF_vars(Record)
    /\ WF_vars(Submit)
    /\ WF_vars(Present)
    /\ WF_vars(HandleRenderResult)

----------------------------------------------------------------------------
(* Derived views *)

\* the frame state of the design, read off the position in the handler
FrameState ==
    CASE pc \in {"constructed", "panicked"} -> "Starting"
      [] pc = "loop" -> IF exiting THEN "ShuttingDown" ELSE "Idle"
      [] pc = "exited" -> "ShuttingDown"
      [] pc \in {"requested", "updated", "failed"} -> "Acquiring"
      [] pc \in {"acquired", "recorded"} -> "Recording"
      [] pc = "submitted" -> "Submitted"
      [] pc = "presented" -> "Presented"

CountOp(log, name) == Cardinality({i \in DOMAIN log : log[i] = name})

\* the handler of the last delivered event has returned
Returned == pc \in {"loop", "exited"} /\ event.kind # "none"

----------------------------------------------------------------------------
(* Properties *)

IsRedraw == event.kind = "RedrawRequested"
IsCyclePress ==
    event.kind = "KeyboardInput" /\ event.state = "Pressed" /\ event.code = "Space"
SizeOf(w, h) == [width |-> w, height |-> h]

\* C1: a redraw whose acquisition fails with Lost or Outdated has, when its
\* handler returns, made exactly one surface.configure call with the size
\* stored before the error, submitted and presented nothing, and left the
\* frame state at Idle, not ShuttingDown.
C1_LostOutdatedReconfigures ==
    (Returned /\ IsRedraw /\ acquired \in {"Lost", "Outdated"}) =>
        /\ CountOp(ops, "configure") = 1
        /\ size = pre.size
        /\ surface_configuration = SizeOf(pre.size.width, pre.size.height)
        /\ surface = SizeOf(pre.size.width, pre.size.height)
        /\ CountOp(ops, "submit") = 0
        /\ CountOp(ops, "present") = 0
        /\ ~frame.recorded
        /\ FrameState = "Idle"

C1_Witness ==
    /\ Returned /\ IsRedraw /\ acquired = "Outdated"
    /\ CountOp(ops, "configure") = 1
    /\ size = SizeOf(1, 2)

\* C2: a redraw whose acquisition fails with OutOfMemory or Other ends in
\* ShuttingDown (exit requested); its only request_redraw call is the one
\* made before acquisition, and once exit is requested no handler runs, so no
\* redraw is requested any more.
C2_FatalShutsDown ==
    /\ [](((pc \in {"loop", "exited"}) /\ IsRedraw
            /\ acquired \in {"OutOfMemory", "Other"}) =>
                /\ exiting
                /\ FrameState = "ShuttingDown"
                /\ CountOp(ops, "request_redraw") = 1
                /\ ops[1] = "request_redraw"
                /\ CountOp(ops, "configure") = 0)
    /\ [][exiting => (exiting' /\ ops' = ops /\ redraw_pending' = redraw_pending)]_vars

C2_Witness ==
    /\ pc = "exited" /\ IsRedraw /\ acquired = "Other" /\ exiting

\* C3: a redraw whose acquisition fails with Timeout reconfigures nothing,
\* records, submits and presents nothing, leaves the clear colour and the
\* active pipeline index as they were and does not request exit.
C3_TimeoutSkips ==
    (Returned /\ IsRedraw /\ acquired = "Timeout") =>
        /\ CountOp(ops, "configure") = 0
        /\ CountOp(ops, "draw_indexed") = 0
        /\ CountOp(ops, "submit") = 0
        /\ CountOp(ops, "present") = 0
        /\ ~frame.recorded
        /\ surface = pre.surface
        /\ clear_color = pre.clear_color
        /\ active_render_pipeline_index = pre.index
        /\ ~exiting
        /\ FrameState = "Idle"

C3_Witness ==
    /\ Returned /\ IsRedraw /\ acquired = "Timeout"
    /\ clear_color # InitialClearColor
    /\ active_render_pipeline_index = 1

\* C4: a resize to (w, h) with w > 0 and h > 0 stores exactly (w, h) as the
\* size and as the configuration's width and height and applies that
\* configuration to the surface once, whatever size was stored before.
C4_PositiveResizeApplies ==
    /\ (Returned /\ event.kind = "Resized" /\ event.width > 0 /\ event.height > 0) =>
            /\ size = SizeOf(event.width, event.height)
            /\ surface_configuration = SizeOf(event.width, event.height)
            /\ surface = SizeOf(event.width, event.height)
            /\ CountOp(ops, "configure") = 1
    \* the startup call state.resize(state.size)
    /\ (pc = "loop" /\ event.kind = "none") =>
            /\ size = pre.size
            /\ surface_configuration = SizeOf(pre.size.width, pre.size.height)
            /\ surface = SizeOf(pre.size.width, pre.size.height)
            /\ CountOp(ops, "configure") = 1

C4_Witness ==
    /\ Returned /\ event.kind = "Resized"
    /\ event.width = 2 /\ event.height = 1
    /\ pre.size = SizeOf(1, 2)
    /\ size = SizeOf(2, 1)

\* C5: a resize to (w, h) with w = 0 or h = 0 does nothing: the stored size,
\* the stored configuration and the surface's configuration are unchanged, no
\* surface.configure call is made and exit is not requested.
C5_ZeroResizeIsNoOp ==
    (Returned /\ event.kind = "Resized" /\ (event.width = 0 \/ event.height = 0)) =>
        /\ size = pre.size
        /\ surface_configuration = pre.surface_configuration
        /\ surface = pre.surface
        /\ ops = <<>>
        /\ ~exiting
        /\ pc = "loop"

C5_Witness ==
    /\ Returned /\ event.kind = "Resized"
    /\ event.width = 2 /\ event.height = 0
    /\ size = SizeOf(1, 2)

\* C6: every configuration handed to surface.configure, State::new's
\* included, has width > 0 and height > 0.
C6_AppliedConfigurationPositive ==
    surface.width > 0 /\ surface.height > 0

\* C7: with N pipelines, a cycle press takes the active index i to
\* (i + 1) mod N; N consecutive presses visit every index of 0..N-1 exactly
\* once and end on the index they started from.
C7_CycleVisitsAll ==
    LET N == Len(render_pipelines) IN
    /\ (Returned /\ IsCyclePress) =>
            active_render_pipeline_index = (pre.index + 1) % N
    /\ Len(cycle_trail) = N + 1 =>
        /\ cycle_trail[N + 1] = cycle_trail[1]
        /\ {cycle_trail[k] : k \in 2..(N + 1)} = 0..(N - 1)

C7_Witness ==
    /\ Len(cycle_trail) = Len(render_pipelines) + 1
    /\ cycle_trail[1] = 1
    /\ IsCyclePress

\* C8: the active pipeline index is always within 0..N-1, so is the index
\* every recorded frame looked its pipeline up with, and the index differs
\* from its value at the arrival of the event only for a cycle press.
C8_IndexInBounds ==
    /\ active_render_pipeline_index \in 0..(Len(render_pipelines) - 1)
    /\ frame.recorded => frame.index \in 0..(Len(render_pipelines) - 1)
    /\ active_render_pipeline_index # pre.index => IsCyclePress

C8_Witness ==
    /\ frame.recorded
    /\ frame.index = 1
    /\ frame.pipeline = "shader2.wgsl"

\* C9: a pointer move to (px, py) sets the clear colour to r = px / width,
\* g = py / height, b = (r + g) / 2, a = 1, unclamped and whatever the colour
\* was before; at px = width / 4, py = 3 * height / 4 it is (1/4, 3/4, 1/2, 1).
C9_PointerColor ==
    event.kind = "CursorMoved" =>
        LET px == event.position.x
            py == event.position.y
            c == clear_color
        IN /\ c.r[1] * px[2] * pre.size.width = px[1] * c.r[2]
           /\ c.g[1] * py[2] * pre.size.height = py[1] * c.g[2]
           /\ 2 * c.b[1] * c.r[2] * c.g[2]
                = c.b[2] * (c.r[1] * c.g[2] + c.g[1] * c.r[2])
           /\ c.a = <<1, 1>>
           /\ (4 * px[1] = px[2] * pre.size.width
                /\ 4 * py[1] = 3 * py[2] * pre.size.height) =>
                    c = [r |-> <<1, 4>>, g |-> <<3, 4>>, b |-> <<1, 2>>,
                         a |-> <<1, 1>>]

C9_Witness ==
    /\ event.kind = "CursorMoved"
    /\ event.position = [x |-> <<1, 2>>, y |-> <<3, 2>>]
    /\ size = SizeOf(2, 2)
    /\ pre.clear_color.r = <<3, 2>>
    /\ clear_color = [r |-> <<1, 4>>, g |-> <<3, 4>>, b |-> <<1, 2>>, a |-> <<1, 1>>]

\* C10: State::input returns true exactly for a pointer move and for a press
\* of Space; an event it returned true for never reaches the match of run()
\* (no exit, no resize, no redraw), every other event of the window does.
C10_ConsumedEvents ==
    (event.kind \notin {"none", "Ignored"}) =>
        /\ consumed <=> (event.kind = "CursorMoved" \/ IsCyclePress)
        /\ consumed =>
            /\ ~generic
            /\ ops = <<>>
            /\ exiting = pre.exiting
            /\ size = pre.size
            /\ surface = pre.surface
            /\ redraw_pending = pre.redraw_pending
            /\ pc = "loop"
        /\ ~consumed => generic

C10_Witness ==
    /\ event.kind = "KeyboardInput" /\ event.code = "Escape"
    /\ event.state = "Released"
    /\ ~consumed /\ generic /\ ~exiting
    /\ pre.index = 1

IsCancelPress ==
    event.kind = "KeyboardInput" /\ event.state = "Pressed" /\ event.code = "Escape"
IsPrefix(a, b) == Len(a) <= Len(b) /\ \A k \in 1..Len(a) : a[k] = b[k]
RecoverableErrors == {"Lost", "Outdated", "Timeout"}
FatalErrors == {"OutOfMemory", "Other"}

\* the calls of a redraw whose acquisition succeeds, in order
FullFrameOps ==
    <<"request_redraw", "update", "get_current_texture", "begin_render_pass",
      "set_pipeline", "set_bind_group", "set_vertex_buffer", "set_index_buffer",
      "draw_indexed", "finish", "submit", "present">>

\* C11: a press of Escape requests exit exactly as a close request does (one
\* exit call, nothing of the render state touched); a release of Escape and
\* a press or release of any other key do not request exit.
C11_CancelKeyExits ==
    /\ (Returned /\ (IsCancelPress \/ event.kind = "CloseRequested")) =>
            /\ exiting
            /\ ops = <<"exit">>
            /\ clear_color = pre.clear_color
            /\ active_render_pipeline_index = pre.index
            /\ size = pre.size
            /\ surface_configuration = pre.surface_configuration
            /\ surface = pre.surface
            /\ redraw_pending = pre.redraw_pending
    /\ (event.kind = "KeyboardInput" /\ ~IsCancelPress) =>
            /\ ~exiting
            /\ CountOp(ops, "exit") = 0

C11_Witness ==
    /\ pc = "exited" /\ IsCancelPress /\ exiting
    /\ pre.index = 1
    /\ clear_color # InitialClearColor

\* C12: a redraw whose acquisition succeeds makes its calls in the order
\* acquire, one render pass with one indexed draw, one submit, one present,
\* and is back at Idle when its handler returns; a handler starts only at
\* Idle, so each frame is presented before the next redraw is delivered and
\* no two frames are in progress together.
C12_FrameOrder ==
    /\ []((IsRedraw /\ acquired = "Ok") =>
            /\ IsPrefix(ops, FullFrameOps)
            /\ pc = "acquired" => Len(ops) = 3
            /\ pc = "recorded" => (Len(ops) = 10 /\ frame.recorded)
            /\ pc = "submitted" => Len(ops) = 11
            /\ pc \in {"presented", "loop", "exited"} =>
                /\ ops = FullFrameOps
                /\ frame.passes = 1
                /\ frame.draws = 1
            /\ pc \in {"loop", "exited"} => FrameState = "Idle")
    /\ [][(event' # event \/ pre' # pre \/ Len(ops') < Len(ops)) =>
            FrameState = "Idle"]_vars

C12_Witness ==
    /\ pc = "loop" /\ IsRedraw /\ acquired = "Ok"
    /\ ops = FullFrameOps
    /\ pre.redraw_pending
    /\ frame.index = 1

\* C13: exit is requested only by a close request, a press of Escape or an
\* OutOfMemory/Other acquisition error, and in no state between a successful
\* acquisition and the presentation of its frame.
C13_ShutdownSources ==
    /\ exiting =>
        /\ \/ event.kind = "CloseRequested"
           \/ IsCancelPress
           \/ IsRedraw /\ acquired \in FatalErrors
        /\ pc \in {"loop", "exited"}
    /\ pc \in {"acquired", "recorded", "submitted", "presented"} =>
        /\ ~exiting
        /\ FrameState \in {"Recording", "Submitted", "Presented"}

C13_Witness ==
    /\ exiting /\ pc = "loop" /\ IsRedraw /\ acquired = "OutOfMemory"

\* C14: a Lost, Outdated or Timeout acquisition error does not request exit
\* and leaves a redraw requested; unless exit is requested, acquisition is
\* then attempted again, and an acquired frame is recorded, submitted and
\* presented.
C14_RecoverableRetries ==
    /\ []((Returned /\ IsRedraw /\ acquired \in RecoverableErrors) =>
            (~exiting /\ redraw_pending /\ pc = "loop"))
    /\ ((pc = "loop" /\ IsRedraw /\ acquired \in RecoverableErrors)
            ~> (exiting \/ pc \in {"acquired", "failed"}))
    /\ ((pc = "acquired")
            ~> (pc = "presented" /\ frame.recorded
                    /\ CountOp(ops, "submit") = 1 /\ CountOp(ops, "present") = 1))

C14_Witness ==
    /\ pc = "loop" /\ IsRedraw /\ acquired = "Lost"
    /\ redraw_pending /\ ~exiting

\* C15: the stored index count is the number of entries of INDICES, and every
\* recorded frame has exactly one indexed draw, over the indices 0 up to that
\* count, whichever pipeline is active.
C15_DrawCoversIndices ==
    /\ resources.n_indices = Len(INDICES)
    /\ frame.recorded =>
        /\ frame.first = 0
        /\ frame.count = Len(INDICES)
        /\ frame.draws = 1
        /\ CountOp(ops, "draw_indexed") = 1

C15_Witness ==
    /\ pc = "presented" /\ frame.recorded
    /\ frame.index = 1
    /\ frame.count = 10

\* C16: every redraw handler calls request_redraw first, update() second and
\* only then get_current_texture, whatever the acquisition returns; update()
\* leaves every field of State as the event found it.
C16_RedrawPrelude ==
    IsRedraw =>
        /\ ops[1] = "request_redraw"
        /\ redraw_pending
        /\ Len(ops) >= 2 => ops[2] = "update"
        /\ Len(ops) >= 3 => ops[3] = "get_current_texture"
        /\ CountOp(ops, "request_redraw") = 1
        /\ CountOp(ops, "update") <= 1
        /\ CountOp(ops, "get_current_texture") <= 1
        /\ pc = "requested" => Len(ops) = 1
        /\ acquired # "None" => Len(ops) >= 3
        /\ Returned => acquired \in AcquireResults
        /\ pc = "updated" =>
            /\ ops = <<"request_redraw", "update">>
            /\ size = pre.size
            /\ surface_configuration = pre.surface_configuration
            /\ surface = pre.surface
            /\ clear_color = pre.clear_color
            /\ active_render_pipeline_index = pre.index
            /\ exiting = pre.exiting
            /\ resources = CreatedResources

C16_Witness ==
    /\ pc = "failed" /\ IsRedraw /\ acquired = "Timeout"
    /\ ops = <<"request_redraw", "update", "get_current_texture">>
    /\ clear_color # InitialClearColor

\* C17: a resize event stays at Idle: it acquires, records, submits and
\* presents nothing, requests neither a redraw nor exit, leaves the clear
\* colour, the pipeline index, the format and the resources alone, and
\* changes at most the size and the configuration's width and height.
C17_ResizeOnlyResizes ==
    event.kind = "Resized" =>
        /\ pc = "loop"
        /\ FrameState = "Idle"
        /\ ops = <<>> \/ ops = <<"configure">>
        /\ acquired = "None"
        /\ ~frame.recorded
        /\ redraw_pending = pre.redraw_pending
        /\ ~exiting
        /\ clear_color = pre.clear_color
        /\ active_render_pipeline_index = pre.index
        /\ surface_format = pre.surface_format
        /\ resources = CreatedResources

C17_Witness ==
    /\ event.kind = "Resized"
    /\ pre.size = SizeOf(1, 2) /\ size = SizeOf(2, 1)
    /\ ~pre.redraw_pending
    /\ clear_color # InitialClearColor
    /\ active_render_pipeline_index = 1

\* C18: the pipelines, the buffers, the index count and the bind group are
\* in every state the ones State::new created, and a cycle press changes the
\* pipeline index and nothing else.
C18_StaticResources ==
    /\ resources = CreatedResources
    /\ (Returned /\ IsCyclePress) =>
        /\ active_render_pipeline_index # pre.index
        /\ clear_color = pre.clear_color
        /\ size = pre.size
        /\ surface_configuration = pre.surface_configuration
        /\ surface = pre.surface
        /\ surface_format = pre.surface_format
        /\ exiting = pre.exiting
        /\ redraw_pending = pre.redraw_pending
        /\ ops = <<>>

C18_Witness ==
    /\ IsCyclePress /\ pc = "loop"
    /\ pre.index = 1 /\ active_render_pipeline_index = 0
    /\ resources.render_pipelines = <<"shader.wgsl", "shader2.wgsl">>

\* C19: the selected surface format is a member of the reported list; it is
\* the first sRGB format of the list when the list has one, and the first
\* format of the list otherwise.
C19_FormatSelection ==
    LET srgb == {k \in DOMAIN surface_caps : surface_caps[k] \in SrgbFormats}
    IN /\ \E k \in DOMAIN surface_caps : surface_caps[k] = surface_format
       /\ srgb # {} =>
            \E k \in srgb :
                /\ surface_caps[k] = surface_format
                /\ \A j \in 1..(k - 1) : j \notin srgb
       /\ srgb = {} => surface_format = surface_caps[1]

C19_Witness ==
    /\ surface_caps = <<"Bgra8Unorm", "Rgba8UnormSrgb", "Bgra8UnormSrgb">>
    /\ surface_format = "Rgba8UnormSrgb"
    /\ pc = "loop"

\* C20: a recorded frame clears to the colour of the last pointer move (the
\* initial colour if there was none) and binds the pipeline the cycle presses
\* so far lead to; recording changes neither, the colour changes only on a
\* pointer move and the index only on a cycle press.
C20_FrameUsesInputs ==
    /\ frame.recorded =>
        /\ frame.clear = clear_color
        /\ clear_color = pre.clear_color
        /\ frame.index = active_render_pipeline_index
        /\ active_render_pipeline_index = pre.index
        /\ frame.index = inputs.presses
        /\ frame.pipeline = render_pipelines[inputs.presses + 1]
        /\ ~inputs.moved => frame.clear = InitialClearColor
        /\ inputs.moved =>
            LET c == frame.clear
            IN /\ c.r = inputs.x
               /\ c.g = inputs.y
               /\ 2 * c.b[1] * inputs.x[2] * inputs.y[2]
                    = c.b[2] * (inputs.x[1] * inputs.y[2] + inputs.y[1] * inputs.x[2])
               /\ c.a = <<1, 1>>
    /\ clear_color # pre.clear_color => event.kind = "CursorMoved"
    /\ active_render_pipeline_index # pre.index => IsCyclePress

C20_Witness ==
    /\ pc = "presented" /\ frame.recorded
    /\ inputs.moved
    /\ inputs.x = <<1, 4>> /\ size = SizeOf(1, 2)
    /\ frame.clear.r = <<1, 4>>
    /\ frame.index = 1

\* C21: in every state the stored size is the stored configuration's width
\* and height, and that configuration is the one last handed to
\* surface.configure; so a pointer move divides by, and a Lost/Outdated
\* recovery reconfigures with, the size of the surface's configuration.
C21_SizeMatchesConfiguration ==
    /\ size.width = surface_configuration.width
    /\ size.height = surface_configuration.height
    /\ surface.width = size.width
    /\ surface.height = size.height
    /\ (Returned /\ IsRedraw /\ acquired \in {"Lost", "Outdated"}) =>
            surface = SizeOf(pre.surface_configuration.width,
                             pre.surface_configuration.height)

C21_Witness ==
    /\ Returned /\ IsRedraw /\ acquired = "Lost"
    /\ size = SizeOf(2, 1)
    /\ surface_configuration = SizeOf(2, 1)
    /\ surface = SizeOf(2, 1)
    /\ inputs.moved /\ inputs.x = <<1, 4>>

====
